---- MODULE Spec2Model ----
(***************************************************************************)
(* Model of update_active_users.py: the daily cached retrieval of the      *)
(* recent-changes log, the per-day edit count, the exponential smoothing   *)
(* of the counts over the time window, the lazy exclusion filter and the   *)
(* top-N table that main() saves.                                          *)
(*                                                                         *)
(* Scores are exact fractions <<numerator, denominator>>; the program      *)
(* computes them in binary floating point.  Dates are day numbers.         *)
(***************************************************************************)
EXTENDS Integers, Sequences, FiniteSets

\* ---------------------------------------------------------------- bounds
MaxUsers  == 2     \* distinct users of the wiki
MaxEvents == 2     \* events of the window: rows of all cache files together
MaxWindow == 2     \* largest TIME_WINDOW explored
MaxTopN   == 2     \* largest TOP_N explored

UserNames == <<"alice", "bob", "carol", "dave", "erin">>
Users     == {UserNames[i] : i \in 1..MaxUsers}

\* Natural ordering of user identifiers (Python's str comparison): the names
\* of UserNames are in ascending order.
Ord(u) == CHOOSE i \in 1..Len(UserNames) : UserNames[i] = u

Today == MaxWindow + 1
Dates == 1..(Today - 1)

Range(s) == {s[i] : i \in DOMAIN s}
Min(a, b) == IF a <= b THEN a ELSE b

VARIABLES
    TIME_WINDOW,       \* configuration: days of the window
    TOP_N,             \* configuration: rows of the table
    SMOOTH_FACTOR,     \* configuration: alpha as <<numerator, denominator>>
    prevent_save,      \* Wiki._prevent_save (DEBUG)
    files,             \* dates whose cache file exists in Wiki._tempdir
    content,           \* the lines of each cache file
    opted_out,         \* users whose profile page matches p_exclude in this run
    loggedin,          \* Wiki._loggedin
    pc,                \* position of main()
    err,               \* the exception that ended the run, "none" if none
    date_i,            \* index in dates of the day main() is at
    changes,           \* _fetch_recent_changes: the changes accumulated so far
    counts_by_dates,   \* main: [(date, count_for_a_day(...))]
    blocked_users,     \* main: blocked_users
    scores,            \* main: the ranking exponential_smoothing returned
    gen_i,             \* scores_to_show: index of the next entry of scores
    template,          \* main: the table rows appended so far, <<rank, user, score>>
    page,              \* what page.save() received in this run: <<>> or <<rows>>
    printed,           \* what save() printed in this run: <<>> or <<rows>>
    lookups,           \* the wiki.load() calls of this run, in order: <<user, outcome>>
    last_call,         \* the last get_recent_changes that returned: <<>> or <<date, rows>>
    first_rows         \* per date, what the first get_recent_changes to return gave

config == <<TIME_WINDOW, TOP_N, SMOOTH_FACTOR, prevent_save>>
disk   == <<files, content>>
run    == <<pc, err, date_i, changes, counts_by_dates, blocked_users, scores,
            gen_i, template, page, printed, lookups, last_call>>
vars   == <<config, disk, opted_out, loggedin, run, first_rows>>

\* ------------------------------------------------------------ fractions
RECURSIVE Gcd(_, _)
Gcd(a, b) == IF b = 0 THEN a ELSE Gcd(b, a % b)
Abs(n) == IF n < 0 THEN -n ELSE n
Norm(f) ==
    LET g == Gcd(Abs(f[1]), f[2]) IN <<f[1] \div g, f[2] \div g>>
FracMul(a, b) == Norm(<<a[1] * b[1], a[2] * b[2]>>)
FracAdd(a, b) == Norm(<<a[1] * b[2] + b[1] * a[2], a[2] * b[2]>>)
FracLess(a, b) == a[1] * b[2] < b[1] * a[2]
Zero == <<0, 1>>
OneMinus(a) == Norm(<<a[2] - a[1], a[2]>>)
FracOfInt(n) == <<n, 1>>

\* ------------------------------------------------------ the cache file
headers == <<"timestamp", "user", "type", "title">>

\* One entry of result['query']['recentchanges'].
Entry(u) ==
    [type |-> "edit", ns |-> "0", title |-> "Page", user |-> u, timestamp |-> "ts"]

\* Wiki._to_csv: a header line, then the fields named by fieldnames of every
\* entry (extrasaction='ignore' drops the others).
to_csv(entries, fieldnames) ==
    <<fieldnames>> \o
    [i \in DOMAIN entries |-> [k \in DOMAIN fieldnames |-> entries[i][fieldnames[k]]]]

\* get_recent_changes, lines 128-133: skip the first line, then one dict per line.
read_csv(lines, fieldnames) ==
    IF lines = <<>> THEN <<>>
    ELSE [i \in 1..(Len(lines) - 1) |->
            [f \in Range(fieldnames) |->
                lines[i + 1][CHOOSE k \in DOMAIN fieldnames : fieldnames[k] = f]]]

\* isfile as it would be if the cache were never consulted.
isfile_never(fs, d) == FALSE

isfile(fs, d) == d \in fs

\* ------------------------------------------------------ count_for_a_day
RECURSIVE Keys(_)
Keys(s) ==
    IF s = <<>> THEN <<>>
    ELSE LET r == Keys(SubSeq(s, 1, Len(s) - 1))
         IN  IF s[Len(s)] \in Range(r) THEN r ELSE Append(r, s[Len(s)])

\* collections.Counter: items in order of first occurrence.
Counter(us) ==
    LET ks == Keys(us)
    IN  [i \in DOMAIN ks |-> <<ks[i], Cardinality({j \in DOMAIN us : us[j] = ks[i]})>>]

\* sorted(..., key=freq, reverse=True) is stable: x goes after the entries
\* whose count is not smaller.
RECURSIVE InsertByFreq(_, _)
InsertByFreq(s, x) ==
    IF s = <<>> THEN <<x>>
    ELSE IF Head(s)[2] >= x[2] THEN <<Head(s)>> \o InsertByFreq(Tail(s), x)
    ELSE <<x>> \o s

RECURSIVE SortByFreq(_)
SortByFreq(s) ==
    IF s = <<>> THEN <<>>
    ELSE InsertByFreq(SortByFreq(SubSeq(s, 1, Len(s) - 1)), s[Len(s)])

count_for_a_day(chs) ==
    SortByFreq(Counter([i \in DOMAIN chs |-> chs[i].user]))

\* ------------------------------------------------------ enumerate_dates
\* enumerate_dates as range(window - 1, -1, -1) would make it.
enumerate_dates_with_today(today, window) ==
    IF window <= 0 THEN <<>> ELSE [k \in 1..window |-> today - (window - k)]

enumerate_dates(today, window) ==
    IF window <= 0 THEN <<>> ELSE [k \in 1..window |-> today - (window - k + 1)]

\* ------------------------------------------------ exponential_smoothing
RECURSIVE Concat(_)
Concat(ss) == IF ss = <<>> THEN <<>> ELSE Head(ss) \o Concat(Tail(ss))

\* Keys of the scores dict, in insertion order (lines 182-184).
score_keys(cbd) ==
    Keys(Concat([d \in DOMAIN cbd |-> [i \in DOMAIN cbd[d][2] |-> cbd[d][2][i][1]]]))

active_users(counts) == {counts[i][1] : i \in DOMAIN counts}
inactive_users(all_users, counts) == all_users \ active_users(counts)
freq_of(counts, u) == counts[CHOOSE i \in DOMAIN counts : counts[i][1] = u][2]

\* Line 192-195.
active_score(s, freq, a) ==
    FracAdd(FracMul(s, OneMinus(a)), FracMul(FracOfInt(freq), a))
\* inactive_score as it would be if an inactive day left the score alone.
inactive_score_kept(s, a) == s

\* Line 197.
inactive_score(s, a) == FracMul(s, OneMinus(a))

\* One iteration of the loop of lines 188-197.
smooth_day(sc, counts, a) ==
    [u \in DOMAIN sc |->
        IF u \in inactive_users(DOMAIN sc, counts) THEN inactive_score(sc[u], a)
        ELSE active_score(sc[u], freq_of(counts, u), a)]

RECURSIVE smooth_days(_, _, _)
smooth_days(sc, cbd, a) ==
    IF cbd = <<>> THEN sc
    ELSE smooth_days(smooth_day(sc, Head(cbd)[2], a), Tail(cbd), a)

\* tuple_less as it would be if equal scores compared the users in reverse.
tuple_less_users_reversed(x, y) ==
    \/ FracLess(x[1], y[1])
    \/ x[1] = y[1] /\ Ord(x[2]) > Ord(y[2])

\* Python's tuple comparison of (score, user).
tuple_less(x, y) ==
    \/ FracLess(x[1], y[1])
    \/ x[1] = y[1] /\ Ord(x[2]) < Ord(y[2])

\* sorted(..., reverse=True): x goes after the entries that are not smaller.
RECURSIVE InsertReverse(_, _)
InsertReverse(s, x) ==
    IF s = <<>> THEN <<x>>
    ELSE IF ~tuple_less(Head(s), x) THEN <<Head(s)>> \o InsertReverse(Tail(s), x)
    ELSE <<x>> \o s

RECURSIVE sorted_reverse(_)
sorted_reverse(s) ==
    IF s = <<>> THEN <<>>
    ELSE InsertReverse(sorted_reverse(SubSeq(s, 1, Len(s) - 1)), s[Len(s)])

exponential_smoothing(cbd, smooth_factor) ==
    LET ks    == score_keys(cbd)
        init  == [u \in Range(ks) |-> Zero]
        final == smooth_days(init, cbd, smooth_factor)
    IN  sorted_reverse([i \in DOMAIN ks |-> <<final[ks[i]], ks[i]>>])


\* ---------------------------------------------------------------- main
\* The smoothing factors explored: the program's 0.1, and 0.5.
Factors == {<<1, 10>>, <<1, 2>>}

dates == enumerate_dates(Today, TIME_WINDOW)
date  == dates[date_i]

\* The events of one API page; rclimit is scaled down to one event.
Pages == {<<>>} \cup {<<Entry(u)>> : u \in Users}

RECURSIVE Sum(_)
Sum(s) == IF s = <<>> THEN 0 ELSE Head(s) + Sum(Tail(s))

\* Events cached so far, and room left for the fetch that is running.
Cached == Sum([d \in Dates |-> Len(read_csv(content[d], headers))])
Room   == MaxEvents - Cached - Len(changes)

RunInit ==
    /\ loggedin = FALSE
    /\ pc = "main"
    /\ err = "none"
    /\ date_i = 1
    /\ changes = <<>>
    /\ counts_by_dates = <<>>
    /\ blocked_users = {}
    /\ scores = <<>>
    /\ gen_i = 1
    /\ template = <<>>
    /\ page = <<>>
    /\ printed = <<>>
    /\ lookups = <<>>
    /\ last_call = <<>>

\* Cache files of a window of two days: {alice: 4}, then {bob: 2}.
ExampleContent ==
    [d \in Dates |->
        IF d = Today - 2 THEN to_csv([i \in 1..4 |-> Entry("alice")], headers)
        ELSE IF d = Today - 1 THEN to_csv([i \in 1..2 |-> Entry("bob")], headers)
        ELSE <<>>]

\* The cache directory holds, for any of the dates, no file or an empty file;
\* or it holds the files of ExampleContent.
DiskInit ==
    \/ /\ files \in SUBSET Dates
       /\ content = [d \in Dates |-> <<>>]
    \/ /\ files = {Today - 2, Today - 1}
       /\ content = ExampleContent

\* Values the configuration constants must not have.
BadFactors == {<<0, 1>>, <<1, 1>>, <<3, 2>>}

Env ==
    /\ prevent_save \in BOOLEAN
    /\ DiskInit
    /\ opted_out = {}
    /\ first_rows = [d \in Dates |-> <<>>]
    /\ RunInit

\* Any configuration, valid or not.
InitAnyConfig ==
    /\ TIME_WINDOW \in (-1)..MaxWindow
    /\ TOP_N \in (-1)..MaxTopN
    /\ SMOOTH_FACTOR \in Factors \cup BadFactors
    /\ Env

Init ==
    /\ TIME_WINDOW \in 1..MaxWindow
    /\ TOP_N \in 1..MaxTopN
    /\ SMOOTH_FACTOR \in Factors
    /\ Env

\* An exception leaves main().
Raise(e) ==
    /\ pc' = "aborted"
    /\ err' = e

\* get_recent_changes returns rows for the day main() is at; main() appends
\* the day's counts and goes to the next day.
Return(rows) ==
    /\ counts_by_dates' = Append(counts_by_dates, <<date, count_for_a_day(rows)>>)
    /\ date_i' = date_i + 1
    /\ last_call' = <<date, rows>>
    /\ first_rows' = IF first_rows[date] = <<>>
                     THEN [first_rows EXCEPT ![date] = <<rows>>]
                     ELSE first_rows

\* get_recent_changes(date) when the cache file exists: lines 123-124, 128-133.
GetCached ==
    /\ pc = "main"
    /\ date_i <= Len(dates)
    /\ isfile(files, date)
    /\ Return(read_csv(content[date], headers))
    /\ UNCHANGED <<config, disk, opted_out, loggedin, pc, err, changes,
                   blocked_users, scores, gen_i, template, page, printed, lookups>>

\* get_recent_changes(date) without a cache file enters _fetch_recent_changes:
\* login() returns (line 136).
FetchBegin ==
    /\ pc = "main"
    /\ date_i <= Len(dates)
    /\ ~isfile(files, date)
    /\ loggedin' = TRUE
    /\ pc' = "fetch"
    /\ changes' = <<>>
    /\ UNCHANGED <<config, disk, opted_out, err, date_i, counts_by_dates,
                   blocked_users, scores, gen_i, template, page, printed, lookups,
                   last_call, first_rows>>

\* ... or site.login() raises.
FetchLoginFails ==
    /\ pc = "main"
    /\ date_i <= Len(dates)
    /\ ~isfile(files, date)
    /\ ~loggedin
    /\ Raise("login")
    /\ UNCHANGED <<config, disk, opted_out, loggedin, date_i, changes,
                   counts_by_dates, blocked_users, scores, gen_i, template, page,
                   printed, lookups, last_call, first_rows>>

\* One page of the API with a 'continue' (lines 141-157).
ApiContinue ==
    /\ pc = "fetch"
    /\ \E u \in Users :
        /\ Room >= 1
        /\ changes' = Append(changes, Entry(u))
    /\ UNCHANGED <<config, disk, opted_out, loggedin, pc, err, date_i,
                   counts_by_dates, blocked_users, scores, gen_i, template, page,
                   printed, lookups, last_call, first_rows>>

\* The last page of the API (no 'continue'): _fetch_recent_changes returns, the
\* file is written (lines 126-127) and read back (lines 128-133).
ApiLast ==
    /\ pc = "fetch"
    /\ \E pg \in Pages :
        /\ pg = <<>> \/ Room >= 1
        /\ LET entries == changes \o pg
               lines   == to_csv(entries, headers)
           IN  /\ files' = files \cup {date}
               /\ content' = [content EXCEPT ![date] = lines]
               /\ Return(read_csv(lines, headers))
    /\ pc' = "main"
    /\ changes' = <<>>
    /\ UNCHANGED <<config, opted_out, loggedin, err, blocked_users, scores, gen_i,
                   template, page, printed, lookups>>

\* ApiFails as it would be if the file were written page by page.
ApiFailsPartial ==
    /\ pc = "fetch"
    /\ Raise("api")
    /\ files' = files \cup {date}
    /\ content' = [content EXCEPT ![date] = to_csv(changes, headers)]
    /\ UNCHANGED <<config, opted_out, loggedin, date_i, changes,
                   counts_by_dates, blocked_users, scores, gen_i, template, page,
                   printed, lookups, last_call, first_rows>>

\* site.api() raises on some page.
ApiFails ==
    /\ pc = "fetch"
    /\ Raise("api")
    /\ UNCHANGED <<config, disk, opted_out, loggedin, date_i, changes,
                   counts_by_dates, blocked_users, scores, gen_i, template, page,
                   printed, lookups, last_call, first_rows>>

\* The users of a ranking.
Ranked(sc) == {sc[i][2] : i \in DOMAIN sc}

\* Lines 37-39: the blocked accounts are read and the scores computed.  The
\* wiki's answers are drawn here: the blocked accounts and the profiles with
\* the marker, among the users of the ranking (no other user meets the filter).
GetBlocked ==
    /\ pc = "main"
    /\ date_i > Len(dates)
    /\ scores' = exponential_smoothing(counts_by_dates, SMOOTH_FACTOR)
    /\ blocked_users' \in SUBSET Ranked(scores')
    /\ opted_out' \in SUBSET Ranked(scores')
    /\ pc' = "rank"
    /\ UNCHANGED <<config, disk, loggedin, err, date_i, changes,
                   counts_by_dates, gen_i, template, page, printed, lookups,
                   last_call, first_rows>>

\* urlopen() raises in get_blocked_accounts.
GetBlockedFails ==
    /\ pc = "main"
    /\ date_i > Len(dates)
    /\ Raise("blocks")
    /\ UNCHANGED <<config, disk, opted_out, loggedin, date_i, changes,
                   counts_by_dates, blocked_users, scores, gen_i, template, page,
                   printed, lookups, last_call, first_rows>>

\* zip(range(TOP_N), scores_to_show) asks range first: with i rows made, the
\* generator is pulled only if range(n) has an i-th element.
range_exhausted_late(i, n) == i > n

range_exhausted(i, n) == i >= n

\* not_blocked as it would be without the test of line 42.
not_blocked_always(user, blocked) == TRUE

\* Line 42: user not in blocked_users.
not_blocked(user, blocked) == user \notin blocked

\* Line 43-44: the profile page matches p_exclude.
matches_exclude(user) == user \in opted_out

\* table_row as it would be with the rank %d given i instead of i + 1.
table_row_from_zero(i, entry) == <<i, entry[2], entry[1]>>

\* Lines 65-69: the row of the table for the i-th (from 0) entry shown.
table_row(i, entry) == <<i + 1, entry[2], entry[1]>>

\* The generator is being pulled and has an entry left.
Pulling ==
    /\ pc = "rank"
    /\ ~range_exhausted(Len(template), TOP_N)
    /\ gen_i <= Len(scores)

\* scores_to_show drops a blocked user without loading the profile.
SkipBlocked ==
    /\ Pulling
    /\ ~not_blocked(scores[gen_i][2], blocked_users)
    /\ gen_i' = gen_i + 1
    /\ UNCHANGED <<config, disk, opted_out, loggedin, pc, err, date_i, changes,
                   counts_by_dates, blocked_users, scores, template, page, printed,
                   lookups, last_call, first_rows>>

\* scores_to_show loads the profile of a user who is not blocked: an opted-out
\* user is dropped, any other is yielded and gets a row.
Lookup ==
    /\ Pulling
    /\ not_blocked(scores[gen_i][2], blocked_users)
    /\ loggedin' = TRUE
    /\ lookups' = Append(lookups, <<scores[gen_i][2],
                        IF matches_exclude(scores[gen_i][2]) THEN "marker" ELSE "plain">>)
    /\ template' = IF matches_exclude(scores[gen_i][2]) THEN template
                   ELSE Append(template, table_row(Len(template), scores[gen_i]))
    /\ gen_i' = gen_i + 1
    /\ UNCHANGED <<config, disk, opted_out, pc, err, date_i, changes,
                   counts_by_dates, blocked_users, scores, page, printed, last_call,
                   first_rows>>

\* LookupFails as it would be if the exception were caught and the user kept.
LookupFailsSwallowed ==
    /\ Pulling
    /\ not_blocked(scores[gen_i][2], blocked_users)
    /\ lookups' = Append(lookups, <<scores[gen_i][2], "error">>)
    /\ loggedin' \in {loggedin, TRUE}
    /\ template' = Append(template, table_row(Len(template), scores[gen_i]))
    /\ gen_i' = gen_i + 1
    /\ UNCHANGED <<config, disk, opted_out, pc, err, date_i, changes,
                   counts_by_dates, blocked_users, scores, page, printed, last_call,
                   first_rows>>

\* wiki.load() raises (in login() or in page.text()).
LookupFails ==
    /\ Pulling
    /\ not_blocked(scores[gen_i][2], blocked_users)
    /\ lookups' = Append(lookups, <<scores[gen_i][2], "error">>)
    /\ loggedin' \in {loggedin, TRUE}
    /\ Raise("load")
    /\ UNCHANGED <<config, disk, opted_out, date_i, changes, counts_by_dates,
                   blocked_users, scores, gen_i, template, page, printed, last_call,
                   first_rows>>

\* The for loop of line 59 is over: zip() stopped.
LoopOver ==
    /\ pc = "rank"
    /\ \/ range_exhausted(Len(template), TOP_N)
       \/ gen_i > Len(scores)

\* wiki.save(): prints under DEBUG, else logs in and saves the page.
Save ==
    /\ LoopOver
    /\ IF prevent_save
       THEN /\ printed' = <<template>>
            /\ UNCHANGED <<page, loggedin>>
       ELSE /\ page' = <<template>>
            /\ loggedin' = TRUE
            /\ UNCHANGED printed
    /\ pc' = "done"
    /\ UNCHANGED <<config, disk, opted_out, err, date_i, changes, counts_by_dates,
                   blocked_users, scores, gen_i, template, lookups, last_call,
                   first_rows>>

\* login() or page.save() raises in wiki.save().
SaveFails ==
    /\ LoopOver
    /\ ~prevent_save
    /\ loggedin' \in {loggedin, TRUE}
    /\ Raise("save")
    /\ UNCHANGED <<config, disk, opted_out, date_i, changes, counts_by_dates,
                   blocked_users, scores, gen_i, template, page, printed, lookups,
                   last_call, first_rows>>

\* The script is started again on the same day, over the same cache directory.
NewRun ==
    /\ pc \in {"done", "aborted"}
    /\ loggedin' = FALSE
    /\ pc' = "main"
    /\ err' = "none"
    /\ date_i' = 1
    /\ changes' = <<>>
    /\ counts_by_dates' = <<>>
    /\ blocked_users' = {}
    /\ scores' = <<>>
    /\ gen_i' = 1
    /\ template' = <<>>
    /\ page' = <<>>
    /\ printed' = <<>>
    /\ lookups' = <<>>
    /\ last_call' = <<>>
    /\ opted_out' = {}
    /\ UNCHANGED <<config, disk, first_rows>>

Next ==
    \/ GetCached
    \/ FetchBegin
    \/ FetchLoginFails
    \/ ApiContinue
    \/ ApiLast
    \/ ApiFails
    \/ GetBlocked
    \/ GetBlockedFails
    \/ SkipBlocked
    \/ Lookup
    \/ LookupFails
    \/ Save
    \/ SaveFails
    \/ NewRun

Spec == Init /\ [][Next]_vars

SpecAnyConfig == InitAnyConfig /\ [][Next]_vars


\* ================================================================ claims
\* exponential_smoothing has returned in this run.
Scored == pc \in {"rank", "done"} \/ err \in {"load", "save"}

\* What wiki.save() received in this run, saved or printed: <<>> or <<rows>>.
Published == page \o printed

\* get_recent_changes is called for a date whose cache file exists.
CacheHit == pc = "main" /\ date_i <= Len(dates) /\ date \in files

\* C1: once the cache file of a date exists, a get_recent_changes for that date
\* neither enters _fetch_recent_changes nor logs in nor touches the file, and
\* every call for a date returns the rows the first call for it returned.
C1_CachedDayNeverRefetched ==
    /\ [][CacheHit => /\ pc' # "fetch"
                      /\ loggedin' = loggedin
                      /\ files' = files
                      /\ content' = content]_vars
    /\ [](last_call # <<>> => <<last_call[2]>> = first_rows[last_call[1]])

\* A run that never logged in got the rows of a file an earlier run wrote
\* from a fetch of zero events.
C1_Witness ==
    /\ ~loggedin
    /\ last_call # <<>>
    /\ content[last_call[1]] = <<headers>>
    /\ last_call[2] = <<>>

\* The run ended in _fetch_recent_changes.
FetchFailed == err \in {"login", "api"}

\* C2: when the fetch of a date fails, at login or on any page, the run has
\* failed, the date has no cache file, and the failing step changed no file.
C2_FailedFetchLeavesNoFile ==
    /\ [](FetchFailed => pc = "aborted" /\ date \notin files)
    /\ [][FetchFailed' /\ ~FetchFailed => files' = files /\ content' = content]_vars

\* The API failed after a page had been received.
C2_Witness == err = "api" /\ changes # <<>> /\ date \notin files

\* The window: the TIME_WINDOW days before today, oldest first.
WindowDates == [k \in 1..TIME_WINDOW |-> Today - TIME_WINDOW + k - 1]

\* C9: the days of a run are today-W .. today-1, oldest first; scores exist
\* and a page is published only when every day of the window was obtained, in
\* that order, and has its cache file; a failed fetch ends the run with no
\* scores and nothing published, the ended run touches no file, and a cache
\* file, once there, stays as it is.
C9_CompleteWindowOrNothing ==
    /\ [](dates = WindowDates)
    /\ [](Scored \/ Published # <<>> =>
            /\ Len(counts_by_dates) = TIME_WINDOW
            /\ \A k \in 1..TIME_WINDOW :
                /\ counts_by_dates[k][1] = WindowDates[k]
                /\ WindowDates[k] \in files)
    /\ [](FetchFailed =>
            /\ pc = "aborted"
            /\ scores = <<>>
            /\ Published = <<>>
            /\ Len(counts_by_dates) = date_i - 1
            /\ date_i <= TIME_WINDOW)
    /\ [][pc = "aborted" => pc' = "main" /\ date_i' = 1 /\ files' = files]_vars
    /\ [][\A d \in files : d \in files' /\ content'[d] = content[d]]_vars

\* The fetch of the second day failed; the file of the first day is there.
C9_Witness ==
    /\ err = "api"
    /\ date_i = 2
    /\ dates[1] \in files
    /\ Len(content[dates[1]]) > 1


\* The recurrence over the users known so far: a user enters with score 0 on
\* the first day of activity, and only users already known decay.
known_day(known, counts, a) ==
    LET active == {counts[i][1] : i \in DOMAIN counts}
        c(u)   == counts[CHOOSE i \in DOMAIN counts : counts[i][1] = u][2]
        old(u) == IF u \in DOMAIN known THEN known[u] ELSE Zero
    IN  [u \in DOMAIN known \cup active |->
            IF u \in active
            THEN FracAdd(FracMul(old(u), OneMinus(a)), FracMul(FracOfInt(c(u)), a))
            ELSE FracMul(known[u], OneMinus(a))]

RECURSIVE known_days(_, _, _)
known_days(known, cbd, a) ==
    IF cbd = <<>> THEN known
    ELSE known_days(known_day(known, Head(cbd)[2], a), Tail(cbd), a)

\* C3: the score exponential_smoothing gives every user is the result of the
\* recurrence score*(1-a) + c*a on active days and score*(1-a) on inactive
\* days, folded oldest-first over the users known so far; the ranking has the
\* users of that recurrence and no other.
C3_ScoresFollowRecurrence ==
    Scored =>
        LET ref == known_days(<<>>, counts_by_dates, SMOOTH_FACTOR)
        IN  /\ Ranked(scores) = DOMAIN ref
            /\ \A i \in DOMAIN scores : scores[i][1] = ref[scores[i][2]]

\* a = 1/2, day 1 {alice: 4}, day 2 {bob: 2}: alice = 1 and bob = 1.
C3_Witness ==
    /\ Scored
    /\ SMOOTH_FACTOR = <<1, 2>>
    /\ counts_by_dates = << <<Today - 2, << <<"alice", 4>> >> >>,
                            <<Today - 1, << <<"bob", 2>> >> >> >>
    /\ \E i, j \in DOMAIN scores :
        /\ scores[i] = <<FracOfInt(1), "alice">>
        /\ scores[j] = <<FracOfInt(1), "bob">>

\* The users of the days of the window.
WindowUsers ==
    UNION {{counts_by_dates[k][2][i][1] : i \in DOMAIN counts_by_dates[k][2]} :
            k \in DOMAIN counts_by_dates}

OneEntryPerUser ==
    /\ Ranked(scores) = WindowUsers
    /\ Len(scores) = Cardinality(WindowUsers)

\* C4 (as claimed): the ranking is descending by score and, among equal
\* scores, the user whose identifier compares smaller comes first.
C4_TiesSmallerUserFirst ==
    Scored =>
        /\ \A i, j \in DOMAIN scores : i < j =>
            \/ FracLess(scores[j][1], scores[i][1])
            \/ scores[i][1] = scores[j][1] /\ Ord(scores[i][2]) < Ord(scores[j][2])
        /\ OneEntryPerUser

\* C4: the ranking is descending by score; among equal scores the user whose
\* identifier compares larger comes first; the ranking holds exactly one entry
\* for every user of the window and no other.
C4_TiesLargerUserFirst ==
    Scored =>
        /\ \A i, j \in DOMAIN scores : i < j =>
            \/ FracLess(scores[j][1], scores[i][1])
            \/ scores[i][1] = scores[j][1] /\ Ord(scores[i][2]) > Ord(scores[j][2])
        /\ OneEntryPerUser

\* Two users of the ranking have the same score.
C4_Witness ==
    /\ Scored
    /\ \E i, j \in DOMAIN scores : i < j /\ scores[i][1] = scores[j][1]

Excluded(u) == u \in blocked_users \/ u \in opted_out

\* The users of the rows of a table.
RowUsers(t) == {t[i][2] : i \in DOMAIN t}

\* C5: no row of the table, while it is built and when it is published, names
\* a blocked user, a user whose profile carries the marker, or a user whose
\* lookup answered with the marker.
C5_NoExcludedUserPublished ==
    /\ \A u \in RowUsers(template) :
        /\ ~Excluded(u)
        /\ \A i \in DOMAIN lookups : lookups[i][1] = u => lookups[i][2] = "plain"
    /\ pc = "done" => Published = <<template>>

\* A table with a row was published although the first of the ranking is excluded.
C5_Witness ==
    /\ pc = "done"
    /\ template # <<>>
    /\ Excluded(scores[1][2])

\* The ranking without the excluded users.
Survivors ==
    LET keep(e) == ~Excluded(e[2]) IN SelectSeq(scores, keep)

\* C6: the published rows are the first min(TOP_N, k) of the k survivors of
\* the ranking, in the order of the ranking, and row i has rank i.
C6_TopNOfSurvivors ==
    pc = "done" =>
        Published = << [i \in 1..Min(TOP_N, Len(Survivors)) |->
                        <<i, Survivors[i][2], Survivors[i][1]>>] >>

\* More users survive than the table has rows: the table is cut at TOP_N.
C6_Witness ==
    /\ pc = "done"
    /\ Len(Survivors) > TOP_N
    /\ Published = <<template>>
    /\ Len(template) = TOP_N

\* Entries of the ranking the generator has been asked about.
Examined == IF err = "load" THEN gen_i ELSE gen_i - 1

SurvivorsBefore(p) == Cardinality({q \in 1..(p - 1) : ~Excluded(scores[q][2])})

\* C7: the profiles loaded are those of the entries examined that are not
\* blocked, in the order of the ranking, each once; an entry is examined only
\* while fewer than TOP_N survivors precede it.
C7_LookupsAreLazy ==
    Scored =>
        LET unblocked(e) == e[2] \notin blocked_users
            wanted == SelectSeq(SubSeq(scores, 1, Examined), unblocked)
        IN  /\ Len(lookups) = Len(wanted)
            /\ \A i \in DOMAIN lookups : lookups[i][1] = wanted[i][2]
            /\ \A i, j \in DOMAIN lookups : i # j => lookups[i][1] # lookups[j][1]
            /\ \A p \in 1..Examined : SurvivorsBefore(p) < TOP_N

\* The table is full and published; an entry that is not blocked was never
\* examined.
C7_Witness ==
    /\ pc = "done"
    /\ Len(template) = TOP_N
    /\ gen_i <= Len(scores)
    /\ scores[gen_i][2] \notin blocked_users
    /\ \A i \in DOMAIN lookups : lookups[i][1] # scores[gen_i][2]

\* C8: a lookup that failed is the last of the run: the run is aborted with
\* that exception, nothing is published, and the user has no row.
C8_LookupFailureAborts ==
    \A i \in DOMAIN lookups : lookups[i][2] = "error" =>
        /\ i = Len(lookups)
        /\ pc = "aborted"
        /\ err = "load"
        /\ Published = <<>>
        /\ lookups[i][1] \notin RowUsers(template)

\* The lookup failed when a row had already been made.
C8_Witness ==
    /\ err = "load"
    /\ template # <<>>
    /\ lookups[Len(lookups)][2] = "error"

InvalidConfig ==
    \/ TIME_WINDOW <= 0
    \/ TOP_N <= 0
    \/ ~(FracLess(Zero, SMOOTH_FACTOR) /\ FracLess(SMOOTH_FACTOR, FracOfInt(1)))

\* C10: a run with an invalid configuration does nothing but reject it.
C10_InvalidConfigRejected ==
    InvalidConfig =>
        /\ pc = "main" \/ err = "config"
        /\ date_i = 1
        /\ ~loggedin
        /\ counts_by_dates = <<>>
        /\ lookups = <<>>
        /\ Published = <<>>


====
